---- MODULE Spec2Model ----
(***************************************************************************)
(* Direct-transcription orbit-insertion scripts simultaneous.py (2D) and   *)
(* simultaneous_3d.py (3D): assembly of the NLP (constraint rows, bound    *)
(* lists, objective), the initial-guess rollout, the solver call and the   *)
(* decoding of its flat result.                                            *)
(*                                                                         *)
(* Numbers.  The scripts compute in floating point.  Here a real quantity  *)
(* that takes part in the dynamics is a fixed-point integer (the real      *)
(* value times Scale, products and quotients rounded down), and a bound or *)
(* a weight is an exact rational <<numerator, denominator>>; +infinity is  *)
(* the rational <<1, 0>>.  Flat vectors are sequences; the code's 0-based  *)
(* index i is position i + 1.                                              *)
(***************************************************************************)
EXTENDS Integers, Sequences, FiniteSets, TLC

\* ------------------------------------------------------------------------
\* Bounds of the model
\* ------------------------------------------------------------------------
\* fixed-point resolution: a real r is the integer r * Scale
Scale == 100
\* largest N (number of transcription intervals) of a run
MaxN == 3
\* time horizon of a run; short, so that h = T / (N - 1) stays near the
\* scripts' step although N is small
T == 8

\* ------------------------------------------------------------------------
\* Arithmetic
\* ------------------------------------------------------------------------
Inf == <<1, 0>>
RZero == <<0, 1>>
RMul(a, b) == <<a[1] * b[1], a[2] * b[2]>>
RDiv(a, b) == <<a[1] * b[2], a[2] * b[1]>>
REq(a, b) == a[1] * b[2] = b[1] * a[2]
RLess(a, b) == a[1] * b[2] < b[1] * a[2]
RLeq(a, b) == a[1] * b[2] <= b[1] * a[2]

\* a rational constant of the source as a fixed-point number
ToFix(q) == (q[1] * Scale) \div q[2]
Mul(a, b) == (a * b) \div Scale
Div(a, b) == (a * Scale) \div b

RECURSIVE SqrtSearch(_, _, _)
SqrtSearch(n, lo, hi) ==
    IF lo >= hi THEN lo
    ELSE LET mid == (lo + hi + 1) \div 2
         IN  IF mid * mid <= n THEN SqrtSearch(n, mid, hi)
                               ELSE SqrtSearch(n, lo, mid - 1)
\* largest r with r * r <= n (n below 2^31)
ISqrt(n) == SqrtSearch(n, 0, 46340)
\* math.sqrt of a fixed-point number
sqrt(a) == ISqrt(a * Scale)

\* math.sin, math.cos, ca.sin, ca.cos: the power series, in fixed point
Pow2(a) == Mul(a, a)
Pow3(a) == Mul(Pow2(a), a)
Pow4(a) == Mul(Pow2(a), Pow2(a))
Pow5(a) == Mul(Pow4(a), a)
Pow6(a) == Mul(Pow4(a), Pow2(a))
Pow7(a) == Mul(Pow6(a), a)
Pow8(a) == Mul(Pow4(a), Pow4(a))
sin(a) == a - (Pow3(a) \div 6) + (Pow5(a) \div 120) - (Pow7(a) \div 5040)
cos(a) == Scale - (Pow2(a) \div 2) + (Pow4(a) \div 24) - (Pow6(a) \div 720)
          + (Pow8(a) \div 40320)

\* Python slice v[lo:hi] and index v[i] of a flat vector
Min(a, b) == IF a <= b THEN a ELSE b
Slice(v, lo, hi) == SubSeq(v, lo + 1, Min(hi, Len(v)))
At(v, i) == v[i + 1]
Zeros(n) == [c \in 1..n |-> 0]

VAdd(a, b) == [c \in 1..Len(a) |-> a[c] + b[c]]
VSub(a, b) == [c \in 1..Len(a) |-> a[c] - b[c]]
VTimes(n, a) == [c \in 1..Len(a) |-> n * a[c]]
VMul(s, a) == [c \in 1..Len(a) |-> Mul(s, a[c])]
RECURSIVE SumSq(_)
SumSq(a) == IF a = <<>> THEN 0 ELSE Head(a) * Head(a) + SumSq(Tail(a))
\* ca.norm_2 of a fixed-point vector
norm_2(a) == ISqrt(SumSq(a))

\* ------------------------------------------------------------------------
\* Configuration constants of the scripts
\* ------------------------------------------------------------------------
\* math.pi
pi == <<355, 113>>
grav_const == <<8, 10000>>
sun_mass == <<1000000, 1>>
rocket_mass == <<5, 100>>
\* rocket is always body_0, planet is always body_-1
body_masses == <<rocket_mass, sun_mass>>
n_body == 1
surface == 100
\* the two scripts: 2 is simultaneous.py, 3 is simultaneous_3d.py
Dimensions == {2, 3}
thrust_max(dimension) == IF dimension = 2 THEN <<3, 10000>> ELSE <<4, 10000>>
\* requested orbit radius: the scripts' 190, and one below 1.1 * surface
Orbits == {105, 190}

\* ------------------------------------------------------------------------
\* Dynamics model and integrator
\* ------------------------------------------------------------------------
\* norm ** 3 of a fixed-point norm
Cube(n) == ((n * n) \div (Scale * Scale)) * n
\* grav_const * mass / (norm_2(delta) ** 3) * delta
Attraction(mass, delta) ==
    LET gm == ToFix(RMul(grav_const, mass))
        n3 == Cube(norm_2(delta))
    IN  [c \in 1..Len(delta) |-> (gm * delta[c]) \div n3]

RECURSIVE PairwiseAcceleration(_, _, _, _, _, _)
\* the loop over j of ode_general: force of body_j on body_i, j /= i
PairwiseAcceleration(z, masses, nb, dimension, i, j) ==
    IF j >= nb THEN Zeros(dimension)
    ELSE LET rest == PairwiseAcceleration(z, masses, nb, dimension, i, j + 1)
             body_position_i == Slice(z, i * dimension, (i + 1) * dimension)
             body_position_j == Slice(z, j * dimension, (j + 1) * dimension)
         IN  IF i = j THEN rest
             ELSE VAdd(Attraction(masses[j + 1],
                                  VSub(body_position_j, body_position_i)),
                       rest)

\* the control force on body_0, divided by its mass
ControlAcceleration(controls, masses, dimension) ==
    LET m == ToFix(masses[1])
        r == At(controls, 0)
        phi == At(controls, 1)
    IN  IF dimension = 2
        THEN <<Div(Mul(r, cos(phi)), m), Div(Mul(r, sin(phi)), m)>>
        ELSE LET theta == At(controls, 2)
             IN  <<Div(Mul(Mul(r, sin(phi)), cos(theta)), m),
                   Div(Mul(Mul(r, sin(phi)), sin(theta)), m),
                   Div(Mul(r, cos(phi)), m)>>

BodyAcceleration(z, controls, masses, nb, dimension, i) ==
    LET body_position_i == Slice(z, i * dimension, (i + 1) * dimension)
        planet_position == Zeros(dimension)
        pairwise == PairwiseAcceleration(z, masses, nb, dimension, i, 0)
        planet == Attraction(masses[Len(masses)],
                             VSub(planet_position, body_position_i))
        gravity == VAdd(pairwise, planet)
    IN  IF i = 0
        THEN VAdd(gravity, ControlAcceleration(controls, masses, dimension))
        ELSE gravity

RECURSIVE RhsVelocity(_, _, _, _)
RhsVelocity(z, nb, dimension, i) ==
    IF i >= nb THEN <<>>
    ELSE Slice(z, nb * dimension + i * dimension,
               nb * dimension + (i + 1) * dimension)
         \o RhsVelocity(z, nb, dimension, i + 1)

RECURSIVE RhsAcceleration(_, _, _, _, _, _)
RhsAcceleration(z, controls, masses, nb, dimension, i) ==
    IF i >= nb THEN <<>>
    ELSE BodyAcceleration(z, controls, masses, nb, dimension, i)
         \o RhsAcceleration(z, controls, masses, nb, dimension, i + 1)

\* the right hand side of z' = f(z, u)
ode_general(z, controls, masses, nb, dimension) ==
    RhsVelocity(z, nb, dimension, 0)
    \o RhsAcceleration(z, controls, masses, nb, dimension, 0)

\* ode(z, controls) of the script of the given dimension, as a value that
\* can be passed to the integrator
ode(dimension) == [name |-> "ode", dimension |-> dimension]
\* an analytically integrable right hand side: position' = velocity,
\* velocity' = the control (a constant acceleration)
constant_acceleration == [name |-> "constant_acceleration"]
ConstantAcceleration(z, controls) == <<z[2], controls[1]>>
\* the call f(z, controls) of a right hand side passed as a value
Call(f, z, controls) ==
    CASE f.name = "ode" ->
            ode_general(z, controls, body_masses, n_body, f.dimension)
      [] f.name = "constant_acceleration" -> ConstantAcceleration(z, controls)

\* the scheme with the last stage taken at the half step
rk4step_half_k4(f, h, x, u) ==
    LET k1 == Call(f, x, u)
        k2 == Call(f, VAdd(x, VMul(h \div 2, k1)), u)
        k3 == Call(f, VAdd(x, VMul(h \div 2, k2)), u)
        k4 == Call(f, VAdd(x, VMul(h \div 2, k3)), u)
    IN  VAdd(x, VMul(h \div 6,
                     VAdd(VAdd(k1, VTimes(2, k2)), VAdd(VTimes(2, k3), k4))))
\* one step of the explicit Runge-Kutta scheme of order four; h * 0.5 and
\* h / 6 are the exact half and sixth of the step wherever h has them
rk4step_u(f, h, x, u) ==
    LET k1 == Call(f, x, u)
        k2 == Call(f, VAdd(x, VMul(h \div 2, k1)), u)
        k3 == Call(f, VAdd(x, VMul(h \div 2, k2)), u)
        k4 == Call(f, VAdd(x, VMul(h, k3)), u)
    IN  VAdd(x, VMul(h \div 6,
                     VAdd(VAdd(k1, VTimes(2, k2)), VAdd(VTimes(2, k3), k4))))

\* dynamics = ca.Function('d', [x_single, u_single, step_h], [rk4step_u(...)])
dynamics(dimension, x_single, u_single, step_h) ==
    rk4step_u(ode(dimension), step_h, x_single, u_single)

\* ------------------------------------------------------------------------
\* State of one run of a script
\* ------------------------------------------------------------------------
VARIABLES
    N,                  \* number of transcription intervals
    dimension,          \* 2 or 3: which of the two scripts runs
    orbit,              \* desired circular orbit height
    v_initial,          \* module-level speed, reassigned before the guess
    x_0_bar,            \* the fixed initial state
    pc,                 \* the statement group the script executes next
    i,                  \* the loop variable
    constraints,        \* list of constraint blocks, a block is a list of rows
    lbg,                \* lower bounds, one per row
    ubg,                \* upper bounds, one per row
    nlp,                \* the dict handed to nlpsol: x, f, g
    x_initial,          \* the guess trajectory, flat
    u_initial,          \* the placeholder controls, flat
    initial_guess,
    optimal_variables,  \* the solver's flat result
    optimal_trajectory, \* decoded state rows
    optimal_controls,   \* decoded control rows
    sample,             \* one call of the integrator on its own: x, u, h, out
    globals             \* what the module-level names x and u are bound to

vars == <<N, dimension, orbit, v_initial, x_0_bar, pc, i, constraints, lbg,
          ubg, nlp, x_initial, u_initial, initial_guess, optimal_variables,
          optimal_trajectory, optimal_controls, sample, globals>>

state_dimension == 2 * n_body * dimension
\* Stepsize
h == <<T, N - 1>>
\* x = ca.SX.sym('x', (N + 1) * state_dimension), u = ca.SX.sym('u', N * dimension)
XLen == (N + 1) * state_dimension
ULen == N * dimension
orbital_vel == sqrt(ToFix(RDiv(RMul(sun_mass, grav_const), <<orbit, 1>>)))

\* the fixed initial state of the script of dimension d, v the speed
InitialStateBar(d, v) ==
    LET r0 == Mul(surface * Scale, ToFix(<<11, 10>>))
    IN  IF d = 2
        THEN LET a == ToFix(RDiv(pi, <<4, 1>>))
             IN  <<r0, 0, Mul(v, cos(a)), Mul(v, sin(a))>>
        ELSE LET phi_0_bar == 0
                 theta_0_bar == ToFix(RDiv(pi, <<235, 100>>))
                 phi_v_0_bar == ToFix(RDiv(pi, <<8, 1>>))
                 theta_v_0_bar == ToFix(RDiv(pi, <<21, 10>>))
             IN  <<Mul(Mul(r0, cos(phi_0_bar)), sin(theta_0_bar)),
                   Mul(r0, cos(theta_0_bar)),
                   Mul(Mul(r0, sin(phi_0_bar)), sin(theta_0_bar)),
                   Mul(Mul(v, cos(phi_v_0_bar)), sin(theta_v_0_bar)),
                   Mul(v, cos(theta_v_0_bar)),
                   Mul(Mul(v, sin(phi_v_0_bar)), sin(theta_v_0_bar))>>

\* the guess started from the position and heading of the fixed initial state
GuessStartStateBar(d, v) == InitialStateBar(d, ToFix(<<2412, 1000>>))
\* the start state of the guess rollout of the script of dimension d
GuessStartState(d, v) ==
    IF d = 2
    THEN LET a == ToFix(RDiv(pi, <<3, 1>>))
         IN  <<surface * Scale, 0, Mul(v, cos(a)), Mul(v, sin(a))>>
    ELSE LET r0 == Mul(surface * Scale, ToFix(<<11, 10>>))
             phi_0_bar == 0
             theta_0_bar == ToFix(RDiv(pi, <<235, 100>>))
             theta_v_0_bar == ToFix(RDiv(pi, <<21, 10>>))
             a == ToFix(RDiv(pi, <<4, 1>>))
         IN  <<Mul(Mul(r0, cos(phi_0_bar)), sin(theta_0_bar)),
               Mul(r0, cos(theta_0_bar)),
               Mul(Mul(r0, sin(phi_0_bar)), sin(theta_0_bar)),
               Mul(Mul(v, cos(a)), sin(theta_v_0_bar)),
               Mul(v, cos(theta_v_0_bar)),
               Mul(Mul(v, sin(a)), sin(theta_v_0_bar))>>

\* the speed the guess is built with
GuessSpeed(d) ==
    IF d = 2
    THEN sqrt(Pow2(ToFix(<<3, 10>>)) + Pow2(ToFix(<<3, 1>>)))
    ELSE ToFix(<<301496, 100000>>)

\* ------------------------------------------------------------------------
\* Constraint rows.  A row is the scalar expression a constraint block
\* contributes: its class, the loop index k and the component c it was built
\* for, the slices [lo, hi) of x and of u it reads, and its constant.
\*   initial:      x[xs.lo + c] - const
\*   dynamics:     x[xn.lo + c] - dynamics(x[xs], u[us], step)[c]
\*   safety:       norm_2(x[xs])
\*   thrust:       u[us.lo]
\*   *_slew:       fabs(u[us.lo] - u[us.hi])
\*   terminal_*:   position slice xs and velocity slice xn of x_terminal
\* ------------------------------------------------------------------------
NoSlice == <<0, 0>>
Row(cls, k, c, xs, xn, us, step, const) ==
    [cls |-> cls, k |-> k, c |-> c, xs |-> xs, xn |-> xn, us |-> us,
     step |-> step, const |-> const]

Repeat(v, n) == [c \in 1..n |-> v]

RECURSIVE Flatten(_)
Flatten(blocks) ==
    IF blocks = <<>> THEN <<>> ELSE Head(blocks) \o Flatten(Tail(blocks))
\* the scalar rows of the constraint list, in order
Rows == Flatten(constraints)

\* x = ca.SX.sym('x', ...), u = ca.SX.sym('u', ...): the names' first binding
XSym == [j \in 1..XLen |-> <<"x", j - 1>>]
USym == [j \in 1..ULen |-> <<"u", j - 1>>]
Symbols == [x |-> XSym, u |-> USym]
NoSample == [x |-> <<>>, u |-> <<>>, h |-> 0, out |-> <<>>]
Init ==
    /\ N \in 2..MaxN
    /\ dimension \in Dimensions
    /\ orbit \in Orbits
    /\ v_initial = ToFix(<<2412, 1000>>)
    /\ x_0_bar = InitialStateBar(dimension, v_initial)
    /\ pc = "initial"
    /\ i = 0
    /\ constraints = <<>>
    /\ lbg = <<>>
    /\ ubg = <<>>
    /\ nlp = [x |-> <<>>, f |-> <<>>, g |-> <<>>]
    /\ x_initial = <<>>
    /\ u_initial = <<>>
    /\ initial_guess = <<>>
    /\ optimal_variables = <<>>
    /\ optimal_trajectory = <<>>
    /\ optimal_controls = <<>>
    /\ sample = NoSample
    /\ globals = Symbols

config == <<N, dimension, orbit, x_0_bar, sample, globals>>
guess == <<v_initial, x_initial, u_initial, initial_guess>>
solution == <<optimal_variables, optimal_trajectory, optimal_controls>>

\* constraints.append(block); lbg += lo; ubg += hi; then the next statement
AppendGroup(block, lo, hi, nextpc, nexti) ==
    /\ constraints' = Append(constraints, block)
    /\ lbg' = lbg \o lo
    /\ ubg' = ubg \o hi
    /\ pc' = nextpc
    /\ i' = nexti
    /\ UNCHANGED <<config, guess, solution, nlp>>

\* Constraint: x_0 = x_0_bar (eqn. (27))
InitialBlock ==
    [c \in 1..state_dimension |->
        Row("initial", 0, c - 1, <<0, state_dimension>>, NoSlice, NoSlice,
            RZero, x_0_bar[c])]
AppendInitial ==
    /\ pc = "initial"
    /\ AppendGroup(InitialBlock, Repeat(RZero, state_dimension),
              Repeat(RZero, state_dimension), "dynamics", 0)

\* the defect block reading the control slice u[k:k + dimension]
DynamicsBlockUnscaledControl(k) ==
    [c \in 1..state_dimension |->
        Row("dynamics", k, c - 1,
            <<k * state_dimension, (k + 1) * state_dimension>>,
            <<(k + 1) * state_dimension, (k + 2) * state_dimension>>,
            <<k, k + dimension>>, h, 0)]
\* Constraint: x_k+1 - F(x_k, u_k) (eqn. (26))
DynamicsBlock(k) ==
    [c \in 1..state_dimension |->
        Row("dynamics", k, c - 1,
            <<k * state_dimension, (k + 1) * state_dimension>>,
            <<(k + 1) * state_dimension, (k + 2) * state_dimension>>,
            <<dimension * k, dimension * (k + 1)>>, h, 0)]
AppendDynamics ==
    /\ pc = "dynamics"
    /\ AppendGroup(DynamicsBlock(i), Repeat(RZero, state_dimension),
              Repeat(RZero, state_dimension),
              IF i + 1 < N THEN "dynamics" ELSE "safety",
              IF i + 1 < N THEN i + 1 ELSE 0)

\* Constraint: stay above the surface (eqn. (24))
SafetyLoop == 0..(N - 1)
SafetyLower == RMul(<<11, 10>>, <<surface, 1>>)
SafetyBlock(k) ==
    <<Row("safety", k, 0,
          <<k * state_dimension, k * state_dimension + dimension>>,
          NoSlice, NoSlice, RZero, 0)>>
AppendSafety ==
    /\ pc = "safety"
    /\ i \in SafetyLoop
    /\ AppendGroup(SafetyBlock(i), <<SafetyLower>>, <<Inf>>,
              IF i + 1 \in SafetyLoop THEN "safety" ELSE "thrust",
              IF i + 1 \in SafetyLoop THEN i + 1 ELSE 0)

\* the thrust block taking every entry of u instead of every dimension-th
ThrustBlockEveryEntry ==
    [c \in 1..ULen |->
        Row("thrust", c - 1, 0, NoSlice, NoSlice, <<c - 1, c>>, RZero, 0)]
\* Constraint: 0 <= u_k1 = r_k <= thrust_max (eqn. (23)); u[::dimension]
ThrustBlock ==
    [c \in 1..((ULen + dimension - 1) \div dimension) |->
        Row("thrust", c - 1, 0, NoSlice, NoSlice,
            <<(c - 1) * dimension, (c - 1) * dimension + 1>>, RZero, 0)]
AppendThrust ==
    /\ pc = "thrust"
    /\ AppendGroup(ThrustBlock, Repeat(RZero, N), Repeat(thrust_max(dimension), N),
              "thrust_slew", 0)

\* Constraint: limit change of thrust (eqn. (31))
ThrustSlewBlock(k) ==
    <<Row("thrust_slew", k, 0, NoSlice, NoSlice,
          <<(k + 1) * dimension, k * dimension>>, RZero, 0)>>
\* the thrust slew bound written with the angle rate
ThrustSlewUpperAngleRate == RDiv(RMul(h, pi), <<48, 1>>)
ThrustSlewUpper == RDiv(RMul(h, thrust_max(dimension)), <<60, 1>>)
AppendThrustSlew ==
    /\ pc = "thrust_slew"
    /\ AppendGroup(ThrustSlewBlock(i), <<RZero>>, <<ThrustSlewUpper>>,
              IF i + 1 < N - 1 THEN "thrust_slew" ELSE "angle_slew",
              IF i + 1 < N - 1 THEN i + 1 ELSE 0)

\* Constraint: limit change of angle (eqn. (32)), and in 3D (eqn. (33))
\* the angle of node k+1 compared against the thrust of node k
AngleSlewBlockAgainstThrust(k, a) ==
    <<Row("angle_slew", k, a, NoSlice, NoSlice,
          <<(k + 1) * dimension + a, k * dimension>>, RZero, 0)>>
AngleSlewBlock(k, a) ==
    <<Row("angle_slew", k, a, NoSlice, NoSlice,
          <<(k + 1) * dimension + a, k * dimension + a>>, RZero, 0)>>
AngleSlewUpper == RDiv(RMul(h, pi), <<48, 1>>)
AppendAngleSlew ==
    /\ pc = "angle_slew"
    /\ AppendGroup(AngleSlewBlock(i, 1), <<RZero>>, <<AngleSlewUpper>>,
              IF i + 1 < N - 1 THEN "angle_slew"
              ELSE IF dimension = 3 THEN "angle_slew_2"
              ELSE "terminal_velocity",
              IF i + 1 < N - 1 THEN i + 1 ELSE 0)
AppendAngleSlew2 ==
    /\ pc = "angle_slew_2"
    /\ AppendGroup(AngleSlewBlock(i, 2), <<RZero>>, <<AngleSlewUpper>>,
              IF i + 1 < N - 1 THEN "angle_slew_2" ELSE "terminal_velocity",
              IF i + 1 < N - 1 THEN i + 1 ELSE 0)

\* Terminal constraints on x_terminal = x[N * state_dimension:(N+1) * ...]
TerminalPosition ==
    <<N * state_dimension, N * state_dimension + dimension>>
TerminalVelocity ==
    <<N * state_dimension + n_body * dimension,
      N * state_dimension + (n_body + 1) * dimension>>
TerminalRow(cls, xs, xn, const) ==
    <<Row(cls, N, 0, xs, xn, NoSlice, RZero, const)>>
\* Constraint: reach orbital velocity (eqn. (16))
AppendTerminalVelocity ==
    /\ pc = "terminal_velocity"
    /\ AppendGroup(TerminalRow("terminal_velocity", NoSlice, TerminalVelocity,
                          orbital_vel),
              <<RZero>>, <<RZero>>, "terminal_perpendicular", 0)
\* Constraint: velocity is perpendicular to the position (eqn. (17))
AppendTerminalPerpendicular ==
    /\ pc = "terminal_perpendicular"
    /\ AppendGroup(TerminalRow("terminal_perpendicular", TerminalPosition,
                          TerminalVelocity, 0),
              <<RZero>>, <<RZero>>,
              IF dimension = 3 THEN "terminal_binormal"
              ELSE "terminal_distance", 0)
\* Constraint: velocity is perpendicular to orbit binormal (eqn. (19)), 3D
AppendTerminalBinormal ==
    /\ pc = "terminal_binormal"
    /\ AppendGroup(TerminalRow("terminal_binormal", NoSlice, TerminalVelocity, 0),
              <<RZero>>, <<RZero>>, "terminal_plane", 0)
\* Constraint: rocket is on the orbit (eqn. (18)), 3D
AppendTerminalPlane ==
    /\ pc = "terminal_plane"
    /\ AppendGroup(TerminalRow("terminal_plane", TerminalPosition, NoSlice, 0),
              <<RZero>>, <<RZero>>, "terminal_distance", 0)
\* Constraint: rocket has correct distance to the planet (eqn. (15))
AppendTerminalDistance ==
    /\ pc = "terminal_distance"
    /\ AppendGroup(TerminalRow("terminal_distance", TerminalPosition, NoSlice,
                          orbit * Scale),
              <<RZero>>, <<RZero>>, "vertcat", 0)

\* constraints = ca.vertcat(*constraints)
Vertcat ==
    /\ pc = "vertcat"
    /\ constraints' = <<Flatten(constraints)>>
    /\ pc' = "nlp"
    /\ UNCHANGED <<config, guess, solution, nlp, i, lbg, ubg>>

\* ------------------------------------------------------------------------
\* Objective, solver input
\* ------------------------------------------------------------------------
\* the sum indexing u[i] instead of u[dimension * i]
cost_function_unstrided(x, u) ==
    [k \in 1..N |-> [coef |-> h, var |-> At(u, k - 1)]]
\* the finite Riemann sum (eqn. (25)), as the list of its terms coef * var
cost_function_integral_discrete(x, u) ==
    [k \in 1..N |-> [coef |-> h, var |-> At(u, dimension * (k - 1))]]

\* nlp = {'x': ca.vertcat(x, u), 'f': cost(x, u), 'g': constraints}
BuildNlp ==
    /\ pc = "nlp"
    /\ nlp' = [x |-> globals.x \o globals.u,
               f |-> cost_function_integral_discrete(globals.x, globals.u),
               g |-> Rows]
    /\ pc' = "guess"
    /\ UNCHANGED <<config, guess, solution, i, constraints, lbg, ubg>>

\* ------------------------------------------------------------------------
\* Initial guess
\* ------------------------------------------------------------------------
\* a placeholder that ramps up instead of staying at zero
PlaceholderControlsRamp(n) == [c \in 1..n |-> c]
\* u_initial = [0] * n
PlaceholderControls(n) == Zeros(n)
\* build initial guess: v_initial, x_initial, u_initial
GuessInit ==
    /\ pc = "guess"
    /\ v_initial' = GuessSpeed(dimension)
    /\ x_initial' = GuessStartState(dimension, v_initial')
    /\ u_initial' = PlaceholderControls(IF dimension = 2 THEN 2 * N
                                                           ELSE dimension * N)
    /\ pc' = "rollout"
    /\ i' = 0
    /\ UNCHANGED <<config, initial_guess, solution, nlp, constraints, lbg, ubg>>

\* the rollout step always reading the first node, x_initial[0:state_dimension]
RolloutNodeFromStart(k) ==
    dynamics(dimension,
             Slice(x_initial, 0, state_dimension),
             Slice(u_initial, dimension * k, dimension * (k + 1)),
             ToFix(h))
\* one iteration of the rollout loop: the node appended to x_initial
RolloutNode(k) ==
    dynamics(dimension,
             Slice(x_initial, k * state_dimension, (k + 1) * state_dimension),
             Slice(u_initial, dimension * k, dimension * (k + 1)),
             ToFix(h))
GuessStep ==
    /\ pc = "rollout"
    /\ x_initial' = x_initial \o RolloutNode(i)
    /\ pc' = IF i + 1 < N THEN "rollout" ELSE "concat"
    /\ i' = IF i + 1 < N THEN i + 1 ELSE 0
    /\ UNCHANGED <<config, v_initial, u_initial, initial_guess, solution, nlp,
                   constraints, lbg, ubg>>

\* the two blocks concatenated in the other order
ConcatenateControlsFirst(xs, us) == us \o xs
\* initial_guess = np.concatenate((x_initial, u_initial)).tolist()
Concatenate(xs, us) == xs \o us
GuessConcat ==
    /\ pc = "concat"
    /\ initial_guess' = Concatenate(x_initial, u_initial)
    /\ pc' = "solve"
    /\ UNCHANGED <<config, v_initial, x_initial, u_initial, solution, nlp, i,
                   constraints, lbg, ubg>>

\* ------------------------------------------------------------------------
\* Solver call and decoding
\* ------------------------------------------------------------------------
\* largest per-entry shift of the solver's result away from the guess
MaxShift == 2
\* res["x"]: some flat vector of the length of the decision vector
SolverResults ==
    {[j \in 1..Len(nlp.x) |->
        (IF j <= Len(initial_guess) THEN initial_guess[j] ELSE 0) + b * j] :
     b \in 0..MaxShift}
Solve ==
    /\ pc = "solve"
    /\ Len(lbg) = Len(nlp.g)
    /\ Len(ubg) = Len(nlp.g)
    /\ optimal_variables' \in SolverResults
    /\ pc' = "decode"
    /\ UNCHANGED <<config, guess, optimal_trajectory, optimal_controls, nlp, i,
                   constraints, lbg, ubg>>

\* the reshape filling column by column (order='F')
ReshapeColumnMajor(flat, rows, cols) ==
    [r \in 1..rows |-> [c \in 1..cols |-> flat[(c - 1) * rows + r]]]
\* np.reshape(flat, (rows, cols)), row-major
Reshape(flat, rows, cols) ==
    [r \in 1..rows |-> [c \in 1..cols |-> flat[(r - 1) * cols + c]]]
\* m[:, lo:hi]
Columns(m, lo, hi) == [r \in 1..Len(m) |-> Slice(m[r], lo, hi)]

DecodeTrajectory(flat) ==
    Columns(Reshape(Slice(flat, 0, (N + 1) * state_dimension),
                    N + 1, state_dimension),
            0, IF dimension = 2 THEN 4 ELSE 6)
DecodeControls(flat) ==
    Reshape(Slice(flat, (N + 1) * state_dimension, Len(flat)),
            N, IF dimension = 2 THEN 2 ELSE 3)
Decode ==
    /\ pc = "decode"
    /\ Len(optimal_variables) = (N + 1) * state_dimension
                                + N * (IF dimension = 2 THEN 2 ELSE 3)
    /\ optimal_trajectory' = DecodeTrajectory(optimal_variables)
    /\ optimal_controls' = DecodeControls(optimal_variables)
    /\ pc' = "decoded"
    /\ UNCHANGED <<config, guess, optimal_variables, nlp, i, constraints, lbg,
                   ubg>>

\* ------------------------------------------------------------------------
\* Terminal simulation
\* ------------------------------------------------------------------------
\* terminal simulation time horizon (number of steps)
terminal_sim == 2
\* np.array([0, 0]) and [0] * 2 in 2D, np.array([0, 0, 0]) and [0] * 3 in 3D
ZeroControl == Zeros(IF dimension = 2 THEN 2 ELSE 3)

\* the control rows left as decoded, without the zero row
NotPadded(controls) == controls
\* np.vstack([optimal_controls, np.array([0, 0])]) before the loop
ZeroPadded(controls) == Append(controls, ZeroControl)
\* add a zero control to u for the terminal simulation
PadControls ==
    /\ pc = "decoded"
    /\ optimal_controls' = ZeroPadded(optimal_controls)
    /\ pc' = IF terminal_sim > 0 THEN "terminal" ELSE "done"
    /\ i' = N
    /\ UNCHANGED <<config, guess, optimal_variables, optimal_trajectory, nlp,
                   constraints, lbg, ubg>>

\* the step always restarting from the final optimized node
TerminalNodeFromFinal(k) ==
    dynamics(dimension, optimal_trajectory[N + 1], ZeroControl, ToFix(h))
\* dynamics(optimal_trajectory[i, :], [0] * 2, h)
TerminalNode(k) ==
    dynamics(dimension, optimal_trajectory[k + 1], ZeroControl, ToFix(h))
\* one iteration of: for i in range(N, N+terminal_sim)
TerminalStep ==
    /\ pc = "terminal"
    /\ i < Len(optimal_trajectory)
    /\ optimal_trajectory' = Append(optimal_trajectory, TerminalNode(i))
    /\ optimal_controls' = Append(optimal_controls, ZeroControl)
    /\ pc' = IF i + 1 < N + terminal_sim THEN "terminal" ELSE "done"
    /\ i' = i + 1
    /\ UNCHANGED <<config, guess, optimal_variables, nlp, constraints, lbg,
                   ubg>>

\* ------------------------------------------------------------------------
\* Plot
\* ------------------------------------------------------------------------
\* the sphere's mesh arrays: np.mgrid[...] and surface * np.cos(u)*np.sin(v)
Mesh == [x |-> <<<<"mesh", "x">>>>, u |-> <<<<"mesh", "u">>>>]
\* the rebinding written through to the expression held by nlp['x']
PlotMeshInPlace ==
    /\ pc = "done"
    /\ dimension = 3
    /\ globals' = Mesh
    /\ nlp' = [nlp EXCEPT !.x = Mesh.x \o Mesh.u]
    /\ pc' = "plotted"
    /\ UNCHANGED <<N, dimension, orbit, x_0_bar, sample, guess, solution, i,
                   constraints, lbg, ubg>>
\* u, v = np.mgrid[...]; x = surface * np.cos(u)*np.sin(v) (3D script only):
\* the names u and x are bound to new arrays
PlotMesh ==
    /\ pc = "done"
    /\ dimension = 3
    /\ globals' = Mesh
    /\ pc' = "plotted"
    /\ UNCHANGED <<N, dimension, orbit, x_0_bar, sample, guess, solution, nlp,
                   i, constraints, lbg, ubg>>

Next ==
    \/ AppendInitial
    \/ AppendDynamics
    \/ AppendSafety
    \/ AppendThrust
    \/ AppendThrustSlew
    \/ AppendAngleSlew
    \/ AppendAngleSlew2
    \/ AppendTerminalVelocity
    \/ AppendTerminalPerpendicular
    \/ AppendTerminalBinormal
    \/ AppendTerminalPlane
    \/ AppendTerminalDistance
    \/ Vertcat
    \/ BuildNlp
    \/ GuessInit
    \/ GuessStep
    \/ GuessConcat
    \/ Solve
    \/ Decode
    \/ PadControls
    \/ TerminalStep
    \/ PlotMesh

Spec == Init /\ [][Next]_vars

\* ------------------------------------------------------------------------
\* The integrator on its own: one step on the constant-acceleration system
\* from sampled states, controls and step sizes
\* ------------------------------------------------------------------------
\* largest magnitude of a sampled position, velocity or acceleration
MaxSample == 2
\* sampled step sizes: multiples of six, which have an exact half and sixth
StepSizes == {6, 12, 18}
Samples == {s * Scale : s \in (0 - MaxSample)..MaxSample}
InitIntegrator ==
    /\ N = 2
    /\ dimension = 2
    /\ orbit = 190
    /\ v_initial = ToFix(<<2412, 1000>>)
    /\ x_0_bar = InitialStateBar(dimension, v_initial)
    /\ pc = "rk4"
    /\ i = 0
    /\ constraints = <<>>
    /\ lbg = <<>>
    /\ ubg = <<>>
    /\ nlp = [x |-> <<>>, f |-> <<>>, g |-> <<>>]
    /\ x_initial = <<>>
    /\ u_initial = <<>>
    /\ initial_guess = <<>>
    /\ optimal_variables = <<>>
    /\ optimal_trajectory = <<>>
    /\ optimal_controls = <<>>
    /\ globals = Symbols
    /\ \E p \in Samples, v \in Samples, a \in Samples, hh \in StepSizes :
          sample = [x |-> <<p, v>>, u |-> <<a>>, h |-> hh * Scale,
                    out |-> <<>>]
\* out = rk4step_u(f, h, x, u)
IntegratorStep ==
    /\ pc = "rk4"
    /\ sample' = [sample EXCEPT
                     !.out = rk4step_u(constant_acceleration, sample.h,
                                       sample.x, sample.u)]
    /\ pc' = "rk4_done"
    /\ UNCHANGED <<N, dimension, orbit, x_0_bar, globals, guess, solution, nlp, i,
                   constraints, lbg, ubg>>
NextIntegrator == IntegratorStep
SpecIntegrator == InitIntegrator /\ [][NextIntegrator]_vars

\* ------------------------------------------------------------------------
\* Properties
\* ------------------------------------------------------------------------
\* the statements after the decoding
AfterDecode == {"decoded", "terminal", "done", "plotted"}
\* the constraint list is complete (every append statement has run)
Assembled ==
    pc \in {"vertcat", "nlp", "guess", "rollout", "concat", "solve", "decode"}
           \cup AfterDecode
RowIndices == 1..Len(Rows)
RowsOf(cls) == {r \in RowIndices : Rows[r].cls = cls}
EqualityClasses ==
    {"initial", "dynamics", "terminal_velocity", "terminal_perpendicular",
     "terminal_binormal", "terminal_plane", "terminal_distance"}

\* C1: after every constraint group appended with its bounds, and so once
\* assembly has finished, the number of scalar constraint rows equals the
\* length of the lower-bound list and the length of the upper-bound list.
C1_BoundRowAlignment ==
    /\ Len(Rows) = Len(lbg)
    /\ Len(Rows) = Len(ubg)
\* every group of the 3D script has been appended, several iterations each
C1_Witness ==
    /\ pc = "vertcat"
    /\ dimension = 3
    /\ N > 2
    /\ Len(lbg) = state_dimension + N * state_dimension + N + N
                  + (N - 1) * dimension + 5

\* the bound pair the row class cls is meant to carry
ClassBounds(cls) ==
    CASE cls \in EqualityClasses -> <<RZero, RZero>>
      [] cls = "safety" -> <<<<11 * surface, 10>>, Inf>>
      [] cls = "thrust" -> <<RZero, thrust_max(dimension)>>
      [] cls = "thrust_slew" ->
            <<RZero, <<T * thrust_max(dimension)[1],
                       (N - 1) * thrust_max(dimension)[2] * 60>>>>
      [] cls = "angle_slew" ->
            <<RZero, <<T * pi[1], (N - 1) * pi[2] * 48>>>>

\* C2: the bound pair at every row index is the pair of that row's own
\* constraint class; equality rows have lb = ub, inequality rows lb < ub,
\* and no row has lb > ub.
C2_BoundsInLockstep ==
    /\ Len(lbg) = Len(Rows)
    /\ Len(ubg) = Len(Rows)
    /\ \A r \in RowIndices :
          LET want == ClassBounds(Rows[r].cls)
          IN  /\ REq(lbg[r], want[1])
              /\ REq(ubg[r], want[2])
              /\ IF Rows[r].cls \in EqualityClasses
                 THEN REq(lbg[r], ubg[r])
                 ELSE RLess(lbg[r], ubg[r])
              /\ ~RLess(ubg[r], lbg[r])
\* an assembled instance that has rows of every inequality class
C2_Witness ==
    /\ Assembled
    /\ \A cls \in {"safety", "thrust", "thrust_slew", "angle_slew",
                   "terminal_distance"} : RowsOf(cls) # {}

\* C3: for every k in 0..N-1 there is exactly one block of state_dimension
\* equality rows x[(k+1)*sd + c] - dynamics(x[k*sd:(k+1)*sd],
\* u[k*D:(k+1)*D], h)[c]; there are no other defect rows and no slice
\* reaches outside the state block or the control block.
C3_DynamicsDefects ==
    pc \notin {"initial", "dynamics"} =>
        /\ Cardinality(RowsOf("dynamics")) = N * (2 * dimension * n_body)
        /\ \A k \in 0..(N - 1) : \A c \in 0..(2 * dimension * n_body - 1) :
              LET sd == 2 * dimension * n_body
                  hits == {r \in RowsOf("dynamics") :
                              Rows[r].k = k /\ Rows[r].c = c}
              IN  /\ Cardinality(hits) = 1
                  /\ \A r \in hits :
                        /\ Rows[r].xn = <<(k + 1) * sd, (k + 2) * sd>>
                        /\ Rows[r].xs = <<k * sd, (k + 1) * sd>>
                        /\ Rows[r].us = <<k * dimension, (k + 1) * dimension>>
                        /\ REq(Rows[r].step, <<T, N - 1>>)
                        /\ Rows[r].xn[2] <= (N + 1) * sd
                        /\ Rows[r].us[2] <= N * dimension
                        /\ REq(lbg[r], RZero) /\ REq(ubg[r], RZero)
\* the defect loop has finished with more than two intervals
C3_Witness ==
    /\ pc = "safety"
    /\ N > 2
    /\ Cardinality(RowsOf("dynamics")) = N * state_dimension

\* ------------------------------------------------------------------------
\* Evaluation of rows at an assignment: xv the state block, uv the control
\* block of a flat vector laid out as the decision vector
\* ------------------------------------------------------------------------
StateBlock(flat) == Slice(flat, 0, XLen)
ControlBlock(flat) == Slice(flat, XLen, XLen + ULen)
Abs(a) == IF a < 0 THEN 0 - a ELSE a
RowValue(row, xv, uv) ==
    CASE row.cls = "initial" -> At(xv, row.xs[1] + row.c) - row.const
      [] row.cls = "dynamics" ->
            At(xv, row.xn[1] + row.c)
            - At(dynamics(dimension, Slice(xv, row.xs[1], row.xs[2]),
                          Slice(uv, row.us[1], row.us[2]), ToFix(row.step)),
                 row.c)
      [] row.cls = "safety" -> norm_2(Slice(xv, row.xs[1], row.xs[2]))
      [] row.cls = "thrust" -> At(uv, row.us[1])
      [] row.cls \in {"thrust_slew", "angle_slew"} ->
            Abs(At(uv, row.us[1]) - At(uv, row.us[2]))
      [] row.cls = "terminal_velocity" ->
            norm_2(Slice(xv, row.xn[1], row.xn[2])) - row.const
      [] row.cls = "terminal_distance" ->
            norm_2(Slice(xv, row.xs[1], row.xs[2])) - row.const
\* lbg[r] <= g[r] <= ubg[r] at the assignment
RowSatisfied(r, xv, uv) ==
    LET val == <<RowValue(Rows[r], xv, uv), Scale>>
    IN  RLeq(lbg[r], val) /\ RLeq(val, ubg[r])

\* C4: for every node k = 0..N, the final node N included, the instance has
\* a safety row bounding the actuated body's distance from the origin at
\* node k below by 1.1 * surface, with upper bound +infinity.
C4_SafetyAtEveryNode ==
    Assembled =>
        \A k \in 0..N :
            \E r \in RowsOf("safety") :
                /\ Rows[r].xs = <<k * state_dimension,
                                  k * state_dimension + dimension>>
                /\ REq(lbg[r], <<11 * surface, 10>>)
                /\ ubg[r] = Inf
\* what the scripts build: safety rows for the nodes 0..N-1 only
C4_SafetyNodesBuilt ==
    Assembled =>
        {Rows[r].k : r \in RowsOf("safety")} = 0..(N - 1)

\* a state block whose nodes 0..N-1 sit at distance 2 * surface and whose
\* final node sits at position p with zero velocity
FinalNodeAssignment(p) ==
    LET far == <<2 * surface * Scale>> \o Zeros(state_dimension - 1)
        nodes == [j \in 1..(N * state_dimension) |->
                     far[((j - 1) % state_dimension) + 1]]
    IN  nodes \o p \o Zeros(state_dimension - Len(p))
\* candidate positions of the final node, at distance orbit from the origin
FinalPositions ==
    {<<orbit * Scale>> \o Zeros(dimension - 1),
     Zeros(dimension - 1) \o <<orbit * Scale>>}
\* C5: when orbit < 1.1 * surface, no assignment of the final state node
\* satisfies both the terminal-distance row and the safety rows.
C5_LowOrbitContradiction ==
    (Assembled /\ RLess(<<orbit, 1>>, <<11 * surface, 10>>)) =>
        ~ \E p \in FinalPositions :
              \A r \in RowsOf("safety") \cup RowsOf("terminal_distance") :
                  RowSatisfied(r, FinalNodeAssignment(p), Zeros(ULen))

\* the guess is complete
GuessBuilt == pc \in {"solve", "decode"} \cup AfterDecode

\* C6: the guess trajectory satisfies every dynamics-consistency row exactly:
\* each defect row, evaluated at the initial guess with the row's own slices
\* and step size, is zero.
C6_GuessSatisfiesDynamics ==
    GuessBuilt =>
        \A r \in RowsOf("dynamics") :
            RowValue(Rows[r], StateBlock(initial_guess),
                     ControlBlock(initial_guess)) = 0
\* a finished guess over more than two intervals whose nodes all differ
C6_Witness ==
    /\ GuessBuilt
    /\ N > 2
    /\ RowsOf("dynamics") # {}
    /\ \A k \in 0..(N - 1) :
          Slice(initial_guess, k * state_dimension, (k + 1) * state_dimension)
          # Slice(initial_guess, (k + 1) * state_dimension,
                  (k + 2) * state_dimension)

C8_GuessLayout ==
    GuessBuilt =>
        LET sd == 2 * dimension * n_body
            xlen == (N + 1) * sd
        IN  /\ Len(initial_guess) = xlen + N * dimension
            /\ Len(initial_guess) = Len(nlp.x)
            /\ \A j \in 1..Len(nlp.x) :
                  nlp.x[j] = IF j <= xlen THEN <<"x", j - 1>>
                                          ELSE <<"u", j - 1 - xlen>>
            /\ Len(x_initial) = xlen
            /\ Len(u_initial) = N * dimension
            /\ \A k \in 0..N :
                  Slice(initial_guess, k * sd, (k + 1) * sd)
                      = Slice(x_initial, k * sd, (k + 1) * sd)
            /\ \A k \in 0..(N - 1) :
                  Slice(initial_guess, xlen + k * dimension,
                        xlen + (k + 1) * dimension)
                      = Slice(u_initial, k * dimension, (k + 1) * dimension)
\* a finished guess whose state entries are not all zero like the controls
C8_Witness ==
    /\ GuessBuilt
    /\ Len(initial_guess) > 0
    /\ \E j \in 1..Len(x_initial) : x_initial[j] # 0
    /\ \A j \in 1..Len(u_initial) : u_initial[j] = 0

\* the objective has been built
ObjectiveBuilt ==
    pc \in {"guess", "rollout", "concat", "solve", "decode"} \cup AfterDecode
\* C9: the objective is the sum over k = 0..N-1 of h * u[D*k]: every control
\* node's thrust component once with weight h, no angle component and no
\* state variable.
C9_ObjectiveIsThrustSum ==
    ObjectiveBuilt =>
        /\ Len(nlp.f) = N
        /\ \A k \in 0..(N - 1) :
              /\ nlp.f[k + 1].var = <<"u", dimension * k>>
              /\ REq(nlp.f[k + 1].coef, <<T, N - 1>>)
        /\ \A t \in 1..Len(nlp.f) :
              /\ nlp.f[t].var[1] = "u"
              /\ nlp.f[t].var[2] % dimension = 0
              /\ nlp.f[t].var[2] < N * dimension
\* an objective over more than two control nodes
C9_Witness ==
    /\ ObjectiveBuilt
    /\ N > 2
    /\ Len(nlp.f) > 2

\* C10: decoded state row k column j is flat entry k*state_dim + j, decoded
\* control row k column c is flat entry (N+1)*state_dim + k*D + c; there
\* are N+1 state rows of state_dim columns and N control rows of D columns.
C10_DecodeInvertsLayout ==
    pc = "decoded" =>
        LET sd == 2 * dimension * n_body
        IN  /\ Len(optimal_variables) = (N + 1) * sd + N * dimension
            /\ Len(optimal_trajectory) = N + 1
            /\ Len(optimal_controls) = N
            /\ \A k \in 0..N :
                  /\ Len(optimal_trajectory[k + 1]) = sd
                  /\ \A j \in 0..(sd - 1) :
                        optimal_trajectory[k + 1][j + 1]
                            = At(optimal_variables, k * sd + j)
            /\ \A k \in 0..(N - 1) :
                  /\ Len(optimal_controls[k + 1]) = dimension
                  /\ \A c \in 0..(dimension - 1) :
                        optimal_controls[k + 1][c + 1]
                            = At(optimal_variables,
                                 (N + 1) * sd + k * dimension + c)
\* a decoded result whose control entries differ from one another
C10_Witness ==
    /\ pc = "decoded"
    /\ N > 2
    /\ optimal_controls[1][1] # optimal_controls[2][1]
    /\ optimal_trajectory[1] # optimal_trajectory[2]

\* the terminal simulation is under way or over
InTerminalSimulation == pc \in {"terminal", "done", "plotted"}

\* C11: the extended trajectory and the extended zero-padded control
\* sequence have equal length at the start and end of every iteration of the
\* terminal simulation, and N + 1 + M rows each after its M steps.
C11_ExtendedLengthsEqual ==
    InTerminalSimulation =>
        /\ Len(optimal_trajectory) = Len(optimal_controls)
        /\ Len(optimal_trajectory) = i + 1
        /\ pc \in {"done", "plotted"} =>
              Len(optimal_controls) = N + 1 + terminal_sim
\* the terminal simulation has finished after at least two steps
C11_Witness ==
    /\ pc = "done"
    /\ Len(optimal_trajectory) >= N + 3
    /\ Len(optimal_controls) >= N + 3

\* C12: row N of the extended trajectory is the decoded state node N, every
\* later row j + 1 is the integrator applied to row j with zero control and
\* step h, and the row read by an iteration exists when it is read.
C12_TerminalRollout ==
    InTerminalSimulation =>
        LET sd == 2 * dimension * n_body
        IN  /\ optimal_trajectory[N + 1]
                   = Slice(optimal_variables, N * sd, (N + 1) * sd)
            /\ \A j \in N..(Len(optimal_trajectory) - 2) :
                  optimal_trajectory[j + 2]
                      = dynamics(dimension, optimal_trajectory[j + 1],
                                 Zeros(dimension), ToFix(<<T, N - 1>>))
            /\ pc = "terminal" => i + 1 <= Len(optimal_trajectory)
            /\ pc \in {"done", "plotted"} =>
                  Len(optimal_trajectory) = N + 1 + terminal_sim
\* two terminal steps have been taken and moved the body
C12_Witness ==
    /\ pc = "done"
    /\ Len(optimal_trajectory) >= N + 3
    /\ optimal_trajectory[N + 2] # optimal_trajectory[N + 1]
    /\ optimal_trajectory[N + 3] # optimal_trajectory[N + 2]

\* C13: one integrator step on the constant-acceleration system, from
\* (p, v) with acceleration a and step h, returns the closed-form solution
\* (p + h*v + h*h*a/2, v + h*a).
C13_StepMatchesClosedForm ==
    pc = "rk4_done" =>
        LET p == sample.x[1]
            v == sample.x[2]
            a == sample.u[1]
            hh == sample.h
        IN  sample.out = <<p + Mul(hh, v) + (Mul(Mul(hh, hh), a) \div 2),
                           v + Mul(hh, a)>>
\* a step with nonzero velocity and acceleration has been taken
C13_Witness ==
    /\ pc = "rk4_done"
    /\ sample.x[2] # 0
    /\ sample.u[1] # 0
    /\ sample.out # sample.x


\* ------------------------------------------------------------------------
SlewClasses == {"thrust_slew", "angle_slew"}
SlewRows == {r \in RowIndices : Rows[r].cls \in SlewClasses}
\* the slew rows on component c between the control nodes k and k + 1
SlewRowsOn(k, c) ==
    {r \in SlewRows : Rows[r].us = <<(k + 1) * dimension + c, k * dimension + c>>}

\* C14: for every k in 0..N-2 and every control component c in 0..D-1 the
\* assembled instance has exactly one slew row |u[(k+1)*D + c] - u[k*D + c]|,
\* with bounds 0 and h*thrust_max/60 for c = 0 and 0 and h*pi/48 for
\* c >= 1; there are (N-1)*D slew rows in total and every index they read
\* lies inside the control block.
C14_SlewRows ==
    Assembled =>
        /\ Cardinality(SlewRows) = (N - 1) * dimension
        /\ \A k \in 0..(N - 2) : \A c \in 0..(dimension - 1) :
              /\ Cardinality(SlewRowsOn(k, c)) = 1
              /\ \A r \in SlewRowsOn(k, c) :
                    /\ Rows[r].cls = (IF c = 0 THEN "thrust_slew" ELSE "angle_slew")
                    /\ REq(lbg[r], RZero)
                    /\ REq(ubg[r],
                           IF c = 0
                           THEN RDiv(RMul(h, thrust_max(dimension)), <<60, 1>>)
                           ELSE RDiv(RMul(h, pi), <<48, 1>>))
        /\ \A r \in SlewRows :
              /\ Len(Rows[r].us) = 2
              /\ \A j \in 1..2 : Rows[r].us[j] \in 0..(ULen - 1)
              /\ Rows[r].us[1] = Rows[r].us[2] + dimension
\* an assembled 3D instance with more than one pair of consecutive nodes
C14_Witness ==
    /\ Assembled
    /\ dimension = 3
    /\ N > 2
    /\ Cardinality(SlewRows) = 6


\* ------------------------------------------------------------------------
RAdd(a, b) == <<a[1] * b[2] + b[1] * a[2], a[2] * b[2]>>
\* the time spanned by the objective's rectangles: the sum of their weights
RECURSIVE WeightSum(_)
WeightSum(terms) ==
    IF terms = <<>> THEN RZero
    ELSE RAdd(terms[1].coef, WeightSum(Tail(terms)))

\* C15: the N transcription intervals of step size h span exactly the time
\* horizon, N * h = T: the weights of the objective's rectangle sum add up
\* to T and the final state node N lies at time T.
C15_IntervalsSpanHorizon ==
    ObjectiveBuilt =>
        /\ REq(RMul(<<N, 1>>, h), <<T, 1>>)
        /\ REq(WeightSum(nlp.f), <<T, 1>>)
\* what the scripts build: N intervals of length T / (N - 1), one interval
\* more than the horizon holds
C15_IntervalsOverrunHorizon ==
    ObjectiveBuilt =>
        /\ REq(RMul(<<N, 1>>, h), RAdd(<<T, 1>>, h))
        /\ REq(WeightSum(nlp.f), RAdd(<<T, 1>>, h))
        /\ Cardinality(RowsOf("dynamics")) = N * state_dimension


\* ------------------------------------------------------------------------
\* the stage of the run a statement group belongs to: 1 assemble, 2 build
\* guess, 3 solve, 4 decode, 5 terminal simulation, 6 what follows it
Stage(p) ==
    CASE p \in {"guess", "rollout", "concat"} -> 2
      [] p = "solve" -> 3
      [] p = "decode" -> 4
      [] p \in {"decoded", "terminal"} -> 5
      [] p \in {"done", "plotted"} -> 6
      [] OTHER -> 1
\* what the solver is handed: the dict nlp at nlpsol, the bound lists at the call
Handed == <<nlp.x, nlp.f, nlp.g, lbg, ubg, constraints>>
\* every constraint group, the objective and the decision vector are built
InstanceComplete ==
    /\ Len(Rows) = state_dimension + N * state_dimension + N + N
                   + (N - 1) * dimension + (IF dimension = 2 THEN 3 ELSE 5)
    /\ Len(lbg) = Len(Rows)
    /\ Len(ubg) = Len(Rows)
    /\ nlp.g = Rows
    /\ nlp.x = XSym \o USym
    /\ Len(nlp.f) = N
    /\ Len(initial_guess) = Len(nlp.x)

\* C16: the run is the strict sequence assemble, build guess, solve, decode,
\* terminal simulation; when the solver is invoked the constraint rows, the
\* objective and both bound lists are complete, and no step from the solver
\* invocation on changes the constraint rows, the bound lists or the
\* decision-vector expression handed to the solver.
C16_InstanceFrozenAfterSolve ==
    [][/\ Stage(pc') \in {Stage(pc), Stage(pc) + 1}
       /\ pc' = "solve" => InstanceComplete'
       /\ Stage(pc) >= 3 => Handed' = Handed]_vars
\* the 3D script has rebound the names x and u after the terminal
\* simulation, and the solver's decision vector is still the symbols
C16_Witness ==
    /\ pc = "plotted"
    /\ globals # Symbols
    /\ nlp.x = XSym \o USym
    /\ Len(optimal_trajectory) = N + 1 + terminal_sim


\* ------------------------------------------------------------------------
ActuatorClasses == {"thrust", "thrust_slew", "angle_slew"}
ActuatorRows == {r \in RowIndices : Rows[r].cls \in ActuatorClasses}
\* the rows the initial guess does not satisfy
GuessViolatedRows ==
    {r \in RowIndices :
        /\ Rows[r].cls \in ActuatorClasses \cup {"initial", "dynamics"}
        /\ ~RowSatisfied(r, StateBlock(initial_guess),
                         ControlBlock(initial_guess))}

\* C17: the all-zero placeholder controls of the initial guess satisfy every
\* actuator row (thrust bound, thrust slew and angle slew rows), so the
\* rows the guess violates are among the initial-condition, safety and
\* terminal rows.
C17_PlaceholderSatisfiesActuatorRows ==
    GuessBuilt =>
        /\ ControlBlock(initial_guess) = Zeros(ULen)
        /\ \A r \in ActuatorRows :
              /\ RowValue(Rows[r], StateBlock(initial_guess),
                          ControlBlock(initial_guess)) = 0
              /\ RowSatisfied(r, StateBlock(initial_guess),
                              ControlBlock(initial_guess))
        /\ \A r \in GuessViolatedRows : Rows[r].cls = "initial"
\* a built 3D guess over rows of every actuator class, which does violate
\* an initial-condition row
C17_Witness ==
    /\ GuessBuilt
    /\ dimension = 3
    /\ N > 2
    /\ Cardinality(ActuatorRows) = N + (N - 1) * dimension
    /\ GuessViolatedRows # {}

====
